---- MODULE Spec2Model ----
(***************************************************************************)
(* Lifter-progression dashboard: the data utilities (normalizeName,        *)
(* parseDate, toNumber, processCsvData) and the state of the App component *)
(* (rows, query, selected, unit, lifts, equipment and the memoised names,  *)
(* matches, filtered and traces).                                          *)
(*                                                                         *)
(* JavaScript values are represented as tuples:                            *)
(*   a string        the tuple of its characters, "" is << >>              *)
(*   undefined       <<"undefined">>                                       *)
(*   null            <<"null">>                                            *)
(*   NaN             <<"NaN">>                                             *)
(*   a number        <<"num", m, e>>, the decimal m * 10^(-e), m not a     *)
(*                   multiple of 10 unless e = 0                           *)
(*   an ISO date     <<"date", y, mo, d>>, the text "YYYY-MM-DD"           *)
(***************************************************************************)
EXTENDS Integers, Sequences, FiniteSets, TLC

VARIABLES arg, res, op,
          file, pending, rows, query, selected, unit, lifts, equipment,
          names, matches

vars == <<arg, res, op, file, pending, rows, query, selected, unit, lifts,
          equipment, names, matches>>

undefined == <<"undefined">>
null == <<"null">>
NaN == <<"NaN">>

\* Bounds of the model: the longest text given to a coercion, the most raw
\* rows given to processCsvData, the most rows of the fetched file.
MaxLen == 3
MaxIngestRows == 2
MaxFileRows == 2

----------------------------------------------------------------------------
\* Characters and strings

Digits == {"0", "1", "2", "3", "4", "5", "6", "7", "8", "9"}
UpperSeq == <<"A", "B", "C", "D", "E", "F", "G", "H", "I", "J", "K", "L", "M",
              "N", "O", "P", "Q", "R", "S", "T", "U", "V", "W", "X", "Y", "Z">>
LowerSeq == <<"a", "b", "c", "d", "e", "f", "g", "h", "i", "j", "k", "l", "m",
              "n", "o", "p", "q", "r", "s", "t", "u", "v", "w", "x", "y", "z">>
Lower == {LowerSeq[i] : i \in 1..26}
Whitespace == {" ", "\t", "\n"}

\* String.prototype.toLowerCase
ToLowerChar(c) ==
  IF \E i \in 1..26 : UpperSeq[i] = c
  THEN LowerSeq[CHOOSE i \in 1..26 : UpperSeq[i] = c]
  ELSE c
toLowerCase(s) == [i \in 1..Len(s) |-> ToLowerChar(s[i])]

\* String.prototype.trim
RECURSIVE TrimStart(_)
TrimStart(s) ==
  IF s # <<>> /\ Head(s) \in Whitespace THEN TrimStart(Tail(s)) ELSE s
RECURSIVE TrimEnd(_)
TrimEnd(s) ==
  IF s # <<>> /\ s[Len(s)] \in Whitespace
  THEN TrimEnd(SubSeq(s, 1, Len(s) - 1)) ELSE s
trim(s) == TrimEnd(TrimStart(s))

\* s.replace(/[^...]/g, ''): keep the characters of the class
KeepChars(s, class) ==
  LET keep(c) == c \in class IN SelectSeq(s, keep)

\* s.replace(/\s+/g, ' ')
RECURSIVE CollapseWs(_)
CollapseWs(s) ==
  IF s = <<>> THEN <<>>
  ELSE IF Head(s) \in Whitespace
       THEN <<" ">> \o CollapseWs(TrimStart(s))
       ELSE <<Head(s)>> \o CollapseWs(Tail(s))

\* String.prototype.includes
includes(s, t) ==
  \E i \in 0..(Len(s) - Len(t)) : SubSeq(s, i + 1, i + Len(t)) = t

\* JavaScript truthiness of a raw cell: undefined, null and "" are falsy
Truthy(v) == v \notin {undefined, null, NaN, <<>>}

\* a ?? b in place of a || b
Or_nullish(a, b) == IF a # undefined /\ a # null THEN a ELSE b

\* a || b
Or(a, b) == IF Truthy(a) THEN a ELSE b

----------------------------------------------------------------------------
\* Field coercion

normalizeName(name) ==
  IF ~Truthy(name) THEN <<>>
  ELSE CollapseWs(KeepChars(toLowerCase(trim(name)),
                            Lower \cup Digits \cup Whitespace))

\* Numbers
RECURSIVE Pow10(_)
Pow10(e) == IF e = 0 THEN 1 ELSE 10 * Pow10(e - 1)

RECURSIVE Num(_, _)
Num(m, e) ==
  IF e > 0 /\ m % 10 = 0 THEN Num(m \div 10, e - 1) ELSE <<"num", m, e>>

DigitVal(c) == CHOOSE n \in 0..9 : ToString(n) = c

RECURSIVE DigitsToInt(_)
DigitsToInt(s) ==
  IF s = <<>> THEN 0
  ELSE 10 * DigitsToInt(SubSeq(s, 1, Len(s) - 1)) + DigitVal(s[Len(s)])

\* Number(s) for a string s: "" is 0, an optionally signed decimal literal
\* is its value, anything else is NaN
Number(s) ==
  IF s = <<>> THEN Num(0, 0)
  ELSE
    LET neg == Head(s) = "-"
        body == IF neg THEN Tail(s) ELSE s
        digs == KeepChars(body, Digits)
        dots == {i \in 1..Len(body) : body[i] = "."}
        frac == IF dots = {} THEN 0
                ELSE Len(body) - (CHOOSE i \in dots : TRUE)
    IN IF /\ \A i \in 1..Len(body) : body[i] \in Digits \cup {"."}
          /\ Cardinality(dots) <= 1
          /\ digs # <<>>
       THEN Num((IF neg THEN -1 ELSE 1) * DigitsToInt(digs), frac)
       ELSE NaN

toNumber(v) ==
  IF v = undefined \/ v = null THEN null
  ELSE LET n == Number(KeepChars(v, Digits \cup {".", "-"}))
       IN IF n = NaN THEN null ELSE n

\* Dates.  A Date's time value is counted in days since 1970-01-01 UTC (the
\* code's milliseconds divided by 86400000); only its order and its calendar
\* day are observed.
DaysFromCivil(y, mo, d) ==
  LET yy == IF mo <= 2 THEN y - 1 ELSE y
      era == yy \div 400
      yoe == yy - era * 400
      mp == IF mo > 2 THEN mo - 3 ELSE mo + 9
      doy == (153 * mp + 2) \div 5 + d - 1
      doe == yoe * 365 + yoe \div 4 - yoe \div 100 + doy
  IN era * 146097 + doe - 719468

CivilFromDays(z) ==
  LET zz == z + 719468
      era == zz \div 146097
      doe == zz - era * 146097
      yoe == (doe - doe \div 1460 + doe \div 36524 - doe \div 146096) \div 365
      doy == doe - (365 * yoe + yoe \div 4 - yoe \div 100)
      mp == (5 * doy + 2) \div 153
      d == doy - (153 * mp + 2) \div 5 + 1
      mo == IF mp < 10 THEN mp + 3 ELSE mp - 9
      y == yoe + era * 400 + (IF mo <= 2 THEN 1 ELSE 0)
  IN <<"date", y, mo, d>>

IsDateText(v) == Len(v) = 4 /\ v[1] = "date"

\* new Date(v).getTime() as <<"time", days>> or NaN: null converts to 0, a
\* date text to its day, any other text of the model (letters only) and
\* undefined to NaN
NewDate(v) ==
  IF v = null THEN <<"time", 0>>
  ELSE IF IsDateText(v) THEN <<"time", DaysFromCivil(v[2], v[3], v[4])>>
  ELSE NaN

parseDate(d) ==
  IF ~Truthy(d) THEN null
  ELSE LET t == NewDate(d)
       IN IF t = NaN THEN null ELSE CivilFromDays(t[2])

----------------------------------------------------------------------------
\* Ingestion

KG_TO_LB == Num(220462, 5)

\* the product cut to 2 decimals instead of rounded
KgToLb_truncated(kg) ==
  LET p == kg[2] * KG_TO_LB[2]
      D == Pow10(kg[3] + KG_TO_LB[3] - 2)
      mag == IF p < 0 THEN -p ELSE p
      r == mag \div D
  IN Num(IF p < 0 THEN -r ELSE r, 2)

\* +(kg * KG_TO_LB).toFixed(2): the product rounded to 2 decimals, halves
\* away from zero
KgToLb(kg) ==
  LET p == kg[2] * KG_TO_LB[2]
      D == Pow10(kg[3] + KG_TO_LB[3] - 2)
      mag == IF p < 0 THEN -p ELSE p
      r == (mag + D \div 2) \div D
  IN Num(IF p < 0 THEN -r ELSE r, 2)

LbOf(kg) == IF kg # null THEN KgToLb(kg) ELSE null

\* the map callback of processCsvData
processRow(r) ==
  LET Name == Or(Or(Or(r.Name, r.name), r.lifter), <<>>)
      SquatKg == toNumber(Or(Or(Or(r.SquatKg, r.squat), r.best3sqkg), r.best3sq))
      BenchKg == toNumber(Or(Or(Or(r.BenchKg, r.bench), r.best3bnkg), r.best3bn))
      DeadliftKg ==
        toNumber(Or(Or(Or(r.DeadliftKg, r.deadlift), r.best3dlkg), r.best3dl))
      TotalKg == toNumber(Or(Or(r.TotalKg, r.total), r.totalkg))
  IN [Name |-> Name,
      NameNormalized |-> normalizeName(Name),
      MeetDate |->
        Or(parseDate(Or(Or(Or(r.MeetDate, r.meet_date), r.date), r.meetdate)),
           null),
      Equipment |-> Or(Or(Or(r.Equipment, r.equipment), r.Gear), <<>>),
      Federation |-> Or(Or(r.Federation, r.federation), <<>>),
      Age |-> toNumber(Or(r.Age, r.age)),
      BodyweightKg |->
        toNumber(Or(Or(Or(r.BodyweightKg, r.bodyweight), r.bodywt), r.weight)),
      SquatKg |-> SquatKg,
      BenchKg |-> BenchKg,
      DeadliftKg |-> DeadliftKg,
      TotalKg |-> TotalKg,
      SquatLb |-> LbOf(SquatKg),
      BenchLb |-> LbOf(BenchKg),
      DeadliftLb |-> LbOf(DeadliftKg),
      TotalLb |-> LbOf(TotalKg)]

\* rows without a name dropped before the map
processCsvData_namedOnly(rs) ==
  LET named(r) == Truthy(Or(Or(r.Name, r.name), r.lifter))
      kept == SelectSeq(rs, named)
  IN [i \in 1..Len(kept) |-> processRow(kept[i])]

processCsvData(rs) == [i \in 1..Len(rs) |-> processRow(rs[i])]

\* The alias keys of each canonical field, in the order the code reads them
Aliases ==
  [Name |-> <<"Name", "name", "lifter">>,
   MeetDate |-> <<"MeetDate", "meet_date", "date", "meetdate">>,
   Equipment |-> <<"Equipment", "equipment", "Gear">>,
   Federation |-> <<"Federation", "federation">>,
   Age |-> <<"Age", "age">>,
   BodyweightKg |-> <<"BodyweightKg", "bodyweight", "bodywt", "weight">>,
   SquatKg |-> <<"SquatKg", "squat", "best3sqkg", "best3sq">>,
   BenchKg |-> <<"BenchKg", "bench", "best3bnkg", "best3bn">>,
   DeadliftKg |-> <<"DeadliftKg", "deadlift", "best3dlkg", "best3dl">>,
   TotalKg |-> <<"TotalKg", "total", "totalkg">>]

Keys == UNION {{Aliases[f][i] : i \in 1..Len(Aliases[f])} : f \in DOMAIN Aliases}

\* a raw row of PapaParse (header: true): reading a missing column gives
\* undefined
NoColumns == [k \in Keys |-> undefined]
Cells(n, e, d, k) ==
  [NoColumns EXCEPT !.Name = n, !.Equipment = e, !.MeetDate = d, !.SquatKg = k]

----------------------------------------------------------------------------
\* The App component: values derived during a render

\* UTF-16 code unit of a character (printable ASCII, tab and newline); the
\* double quote, backslash and backtick are written out as words
Ascii == <<" ", "!", "QUOTE", "#", "$", "%", "&", "'", "(", ")", "*", "+", ",",
           "-", ".", "/", "0", "1", "2", "3", "4", "5", "6", "7", "8", "9",
           ":", ";", "<", "=", ">", "?", "@", "A", "B", "C", "D", "E", "F",
           "G", "H", "I", "J", "K", "L", "M", "N", "O", "P", "Q", "R", "S",
           "T", "U", "V", "W", "X", "Y", "Z", "[", "BACKSLASH", "]", "^", "_", "BACKTICK",
           "a", "b", "c", "d", "e", "f", "g", "h", "i", "j", "k", "l", "m",
           "n", "o", "p", "q", "r", "s", "t", "u", "v", "w", "x", "y", "z",
           "{", "|", "}", "~">>
CodeUnit(c) ==
  IF c = "\t" THEN 9
  ELSE IF c = "\n" THEN 10
  ELSE 31 + (CHOOSE i \in 1..Len(Ascii) : Ascii[i] = c)

\* the default order of Array.prototype.sort on strings
RECURSIVE StrLess(_, _)
StrLess(s, t) ==
  IF t = <<>> THEN FALSE
  ELSE IF s = <<>> THEN TRUE
  ELSE IF Head(s) = Head(t) THEN StrLess(Tail(s), Tail(t))
  ELSE CodeUnit(Head(s)) < CodeUnit(Head(t))

RECURSIVE SortStrings(_)
SortStrings(S) ==
  IF S = {} THEN <<>>
  ELSE LET m == CHOOSE x \in S : \A y \in S \ {x} : StrLess(x, y)
       IN <<m>> \o SortStrings(S \ {m})

\* names: Array.from(new Set(rows.map(r => r.Name).filter(Boolean))).sort()
NamesOf(rs) ==
  SortStrings({rs[i].Name : i \in {j \in 1..Len(rs) : Truthy(rs[j].Name)}})

\* fuse.search(q).map(x => x.item): the library's approximate matching is
\* abstracted to the names that contain the query, case-insensitively, in
\* list order
FuseSearch(list, q) ==
  LET hit(n) == includes(toLowerCase(n), toLowerCase(q))
  IN SelectSeq(list, hit)

\* the search run on an empty query too
MatchesOf_unguarded(list, q) == FuseSearch(list, q)

\* matches
MatchesOf(list, q) == IF Truthy(q) THEN FuseSearch(list, q) ELSE <<>>

\* arr.filter(r => (r.Equipment || '').toLowerCase().includes('raw'))
IsRaw(r) == includes(toLowerCase(Or(r.Equipment, <<>>)), <<"r", "a", "w">>)

\* the comparator with its operands swapped
Compare_descending(a, b) ==
  LET ta == NewDate(a.MeetDate)
      tb == NewDate(b.MeetDate)
  IN IF ta = NaN \/ tb = NaN THEN 0 ELSE tb[2] - ta[2]

\* the comparator (a, b) => new Date(a.MeetDate) - new Date(b.MeetDate);
\* a NaN difference counts as 0
Compare(a, b) ==
  LET ta == NewDate(a.MeetDate)
      tb == NewDate(b.MeetDate)
  IN IF ta = NaN \/ tb = NaN THEN 0 ELSE ta[2] - tb[2]

\* Array.prototype.sort with the comparator: a stable sort
RECURSIVE Insert(_, _)
Insert(sorted, r) ==
  IF sorted # <<>> /\ Compare(sorted[Len(sorted)], r) > 0
  THEN Insert(SubSeq(sorted, 1, Len(sorted) - 1), r) \o <<sorted[Len(sorted)]>>
  ELSE sorted \o <<r>>
RECURSIVE SortByDate(_)
SortByDate(arr) ==
  IF arr = <<>> THEN <<>>
  ELSE Insert(SortByDate(SubSeq(arr, 1, Len(arr) - 1)), arr[Len(arr)])

\* "Equipped" keeping only records that name an equipment
Filtered_equippedNamed(rs, sel, eq) ==
  IF ~Truthy(sel) THEN <<>>
  ELSE LET byName(r) == r.Name = sel
           raw(r) == IsRaw(r)
           notRaw(r) == Truthy(r.Equipment) /\ ~IsRaw(r)
           arr == SelectSeq(rs, byName)
       IN SortByDate(IF eq # "All"
                     THEN IF eq = "Raw" THEN SelectSeq(arr, raw)
                          ELSE SelectSeq(arr, notRaw)
                     ELSE arr)

\* filtered
Filtered(rs, sel, eq) ==
  IF ~Truthy(sel) THEN <<>>
  ELSE LET byName(r) == r.Name = sel
           raw(r) == IsRaw(r)
           notRaw(r) == ~IsRaw(r)
           arr == SelectSeq(rs, byName)
       IN SortByDate(IF eq # "All"
                     THEN IF eq = "Raw" THEN SelectSeq(arr, raw)
                          ELSE SelectSeq(arr, notRaw)
                     ELSE arr)

\* the keys of the lifts state, in insertion order
LiftKeys == <<"Squat", "Bench", "Deadlift", "Total">>

\* no series at all when no record passed the filters
Traces_emptyWhenNoRecord(flt, lf, un) ==
  LET on(k) == lf[k]
      active == IF flt = <<>> THEN <<>> ELSE SelectSeq(LiftKeys, on)
      unitSuffix == IF un = "kg" THEN "Kg" ELSE "Lb"
  IN [a \in 1..Len(active) |->
        [x |-> [i \in 1..Len(flt) |-> flt[i].MeetDate],
         y |-> [i \in 1..Len(flt) |-> flt[i][active[a] \o unitSuffix]],
         type |-> "scatter",
         mode |-> "lines+markers",
         name |-> active[a]]]

\* points without a value left out of y
Traces_skipNull(flt, lf, un) ==
  LET on(k) == lf[k]
      active == SelectSeq(LiftKeys, on)
      unitSuffix == IF un = "kg" THEN "Kg" ELSE "Lb"
      valued(v) == v # null
  IN [a \in 1..Len(active) |->
        [x |-> [i \in 1..Len(flt) |-> flt[i].MeetDate],
         y |-> SelectSeq([i \in 1..Len(flt) |-> flt[i][active[a] \o unitSuffix]],
                         valued),
         type |-> "scatter",
         mode |-> "lines+markers",
         name |-> active[a]]]

\* traces
Traces(flt, lf, un) ==
  LET on(k) == lf[k]
      active == SelectSeq(LiftKeys, on)
      unitSuffix == IF un = "kg" THEN "Kg" ELSE "Lb"
  IN [a \in 1..Len(active) |->
        [x |-> [i \in 1..Len(flt) |-> flt[i].MeetDate],
         y |-> [i \in 1..Len(flt) |-> flt[i][active[a] \o unitSuffix]],
         type |-> "scatter",
         mode |-> "lines+markers",
         name |-> active[a]]]
----------------------------------------------------------------------------
\* Inputs

SeqsUpTo(S, n) == UNION {[1..k -> S] : k \in 0..n}

CoerceAlphabet == {"A", "b", "1", " ", "\t", ".", "-"}
CoerceInputs == SeqsUpTo(CoerceAlphabet, MaxLen) \cup {undefined, null}

Al == <<"A", "l">>
Cal == <<"C", "a", "l">>
Bad == <<"b", "a", "d">>

IngestPool ==
  {[NoColumns EXCEPT
      !.Name = n1, !.name = n2,
      !.SquatKg = k1, !.best3sq = k2,
      !.bench = k1, !.best3bn = k2,
      !.DeadliftKg = k2, !.best3dlkg = k1,
      !.TotalKg = k1, !.totalkg = k2,
      !.Equipment = k2,
      !.MeetDate = k2, !.date = IF n2 = undefined THEN Bad ELSE <<"date", 2021, 3, 10>>] :
     n1 \in {undefined, <<>>, Al},
     n2 \in {undefined, Cal},
     k1 \in {undefined, <<>>, <<"1", "0", "5", ".", "5">>, Bad},
     k2 \in {undefined, <<>>}}

AppPool ==
  {Cells(Al, <<"R", "a", "w">>, <<"date", 2020, 1, 5>>, <<"1", "0", "0">>),
   Cells(Al, <<>>, undefined, Bad),
   Cells(Al, <<"W", "r", "a", "p", "s">>, <<"date", 1969, 12, 31>>,
         <<"1", "0", "5", ".", "5">>),
   Cells(Al, <<"R", "A", "W">>, <<"date", 1970, 1, 1>>, <<"-">>),
   Cells(Cal, <<"s", "t", "r", "a", "w">>, Bad, <<>>),
   Cells(<<>>, <<"R", "a", "w">>, <<"date", 2021, 3, 10>>, <<"9", "0">>)}

Queries == {<<>>, <<"A", "L">>}

----------------------------------------------------------------------------
\* State of the App component after its first render; the file is the parsed
\* content of /data/sample.csv, and a fetch is pending for each run of the
\* mount effect (React.StrictMode runs it twice)

StrictModeMounts == 2

AppInit(f) ==
  /\ file = f
  /\ pending = StrictModeMounts
  /\ rows = <<>>
  /\ query = <<>>
  /\ selected = <<>>
  /\ unit = "kg"
  /\ lifts = [Squat |-> TRUE, Bench |-> TRUE, Deadlift |-> TRUE, Total |-> FALSE]
  /\ equipment = "All"
  /\ names = <<>>
  /\ matches = <<>>

\* A render after rows or query changed recomputes names, fuse and matches,
\* and the effect on [matches] then selects the first match
Rerender ==
  /\ names' = NamesOf(rows')
  /\ matches' = MatchesOf(names', query')

EffectOnMatches(sel) == IF Len(matches') > 0 THEN matches'[1] ELSE sel

\* complete: (p) => setRows(processCsvData(p.data))
LoadComplete ==
  /\ pending > 0
  /\ pending' = pending - 1
  /\ rows' = processCsvData(file)
  /\ UNCHANGED <<file, query, unit, lifts, equipment, arg, res, op>>
  /\ Rerender
  /\ selected' = EffectOnMatches(selected)

\* .catch(err => console.error(err))
LoadFail ==
  /\ pending > 0
  /\ pending' = pending - 1
  /\ UNCHANGED <<file, rows, query, selected, unit, lifts, equipment, names,
                 matches, arg, res, op>>

\* onChange of the search input
Type(q) ==
  /\ q # query
  /\ query' = q
  /\ UNCHANGED rows
  /\ Rerender
  /\ selected' = EffectOnMatches(selected)
  /\ UNCHANGED <<file, pending, unit, lifts, equipment, arg, res, op>>

\* onClick of a match button: setSelected(m); setQuery('')
ClickMatch(i) ==
  /\ i \in 1..Len(matches)
  /\ i <= 8
  /\ query' = <<>>
  /\ UNCHANGED rows
  /\ Rerender
  /\ selected' = EffectOnMatches(matches[i])
  /\ UNCHANGED <<file, pending, unit, lifts, equipment, arg, res, op>>

\* onChange of the name list
Pick(n) ==
  /\ n = <<>> \/ \E i \in 1..Len(names) : names[i] = n
  /\ n # selected
  /\ selected' = n
  /\ UNCHANGED <<file, pending, rows, query, unit, lifts, equipment, names,
                 matches, arg, res, op>>

\* onChange of a lift checkbox
ToggleLift(k) ==
  /\ lifts' = [lifts EXCEPT ![k] = ~lifts[k]]
  /\ UNCHANGED <<file, pending, rows, query, selected, unit, equipment, names,
                 matches, arg, res, op>>

\* onChange of a unit radio button
SetUnit(u) ==
  /\ u # unit
  /\ unit' = u
  /\ UNCHANGED <<file, pending, rows, query, selected, lifts, equipment, names,
                 matches, arg, res, op>>

\* onChange of the equipment list
SetEquipment(e) ==
  /\ e # equipment
  /\ equipment' = e
  /\ UNCHANGED <<file, pending, rows, query, selected, unit, lifts, names,
                 matches, arg, res, op>>

Next ==
  \/ LoadComplete
  \/ LoadFail
  \/ \E q \in Queries : Type(q)
  \/ \E i \in 1..8 : ClickMatch(i)
  \/ \E n \in {<<>>} \cup {names[i] : i \in 1..Len(names)} : Pick(n)
  \/ \E k \in {"Squat", "Bench", "Deadlift", "Total"} : ToggleLift(k)
  \/ \E u \in {"kg", "lb"} : SetUnit(u)
  \/ \E e \in {"All", "Raw", "Equipped"} : SetEquipment(e)

Init ==
  /\ \E f \in SeqsUpTo(AppPool, MaxFileRows) : AppInit(f)
  /\ arg = undefined /\ res = undefined /\ op = "none"

Spec == Init /\ [][Next]_vars

----------------------------------------------------------------------------
\* The coercions applied to one value

CallNormalizeName ==
  /\ op = "none"
  /\ res' = normalizeName(arg)
  /\ op' = "normalizeName"
  /\ UNCHANGED <<arg, file, pending, rows, query, selected, unit, lifts,
                 equipment, names, matches>>

CallToNumber ==
  /\ op = "none"
  /\ res' = toNumber(arg)
  /\ op' = "toNumber"
  /\ UNCHANGED <<arg, file, pending, rows, query, selected, unit, lifts,
                 equipment, names, matches>>

InitCoerce ==
  /\ arg \in CoerceInputs
  /\ res = undefined /\ op = "none"
  /\ AppInit(<<>>)

NextCoerce == CallNormalizeName \/ CallToNumber

SpecCoerce == InitCoerce /\ [][NextCoerce]_vars

\* processCsvData applied to a sequence of raw rows

CallProcessCsvData ==
  /\ op = "none"
  /\ res' = processCsvData(arg)
  /\ op' = "processCsvData"
  /\ UNCHANGED <<arg, file, pending, rows, query, selected, unit, lifts,
                 equipment, names, matches>>

InitIngest ==
  /\ arg \in SeqsUpTo(IngestPool, MaxIngestRows)
  /\ res = undefined /\ op = "none"
  /\ AppInit(<<>>)

NextIngest == CallProcessCsvData

SpecIngest == InitIngest /\ [][NextIngest]_vars

----------------------------------------------------------------------------
\* Properties of the coercions (SpecCoerce)

\* C2: a raw cell value with no digit left after stripping coerces to null
\* (stated as claimed; the code returns 0 when nothing is left, e.g. "bad")
C2_NoDigitIsNull ==
  (op = "toNumber" /\ KeepChars(arg, Digits) = <<>>) => res = null

HasEdgeOrDoubleWs(s) ==
  \/ s # <<>> /\ (s[1] \in Whitespace \/ s[Len(s)] \in Whitespace)
  \/ \E i \in 1..(Len(s) - 1) : s[i] \in Whitespace /\ s[i + 1] \in Whitespace

\* C3: normalizeName is idempotent and its output has no leading, trailing
\* or doubled whitespace (stated as claimed; the code trims before it strips
\* punctuation, so ". a" becomes " a")
C3_NormalizeIdempotent ==
  op = "normalizeName" =>
    /\ normalizeName(res) = res
    /\ ~HasEdgeOrDoubleWs(res)

----------------------------------------------------------------------------
\* Properties of ingestion (SpecIngest)

Ingested == op = "processCsvData"

\* C1: n raw rows give exactly n records, and the record at position i is
\* the one the row at position i gives when ingested alone
C1_OneRecordPerRow ==
  Ingested =>
    /\ Len(res) = Len(arg)
    /\ \A i \in 1..Len(arg) : res[i] = processCsvData(<<arg[i]>>)[1]

C1_Witness ==
  /\ Ingested
  /\ Len(arg) = 2
  /\ res[1] # res[2]
  /\ res[1].Name = <<>>

\* the values of the aliases of a field, in alias order
AliasValues(r, f) == [i \in 1..Len(Aliases[f]) |-> r[Aliases[f][i]]]

\* the first value of a sequence that satisfies the test, if any
FirstDefined(vs) ==
  IF \E i \in 1..Len(vs) : vs[i] # undefined
  THEN vs[CHOOSE i \in 1..Len(vs) :
            vs[i] # undefined /\ \A j \in 1..(i - 1) : vs[j] = undefined]
  ELSE undefined
FirstTruthy(vs) ==
  IF \E i \in 1..Len(vs) : Truthy(vs[i])
  THEN vs[CHOOSE i \in 1..Len(vs) :
            Truthy(vs[i]) /\ \A j \in 1..(i - 1) : ~Truthy(vs[j])]
  ELSE vs[Len(vs)]

TextFields == {"Name", "Equipment", "Federation"}
NumberFields ==
  {"Age", "BodyweightKg", "SquatKg", "BenchKg", "DeadliftKg", "TotalKg"}

\* the field a chosen alias value gives: text fields default to "", number
\* fields are coerced, the date is parsed
FieldOf(v, f) ==
  IF f \in TextFields THEN (IF Truthy(v) THEN v ELSE <<>>)
  ELSE IF f \in NumberFields THEN toNumber(v)
  ELSE parseDate(v)

\* C4 as claimed, on the text fields (where no coercion takes part): each
\* field takes the first alias that is not undefined, even when it is the
\* empty string
C4_FirstDefinedAlias ==
  Ingested =>
    \A i \in 1..Len(arg) : \A f \in TextFields :
      res[i][f] = FieldOf(FirstDefined(AliasValues(arg[i], f)), f)

\* C4 amended: each field takes the first alias whose value is truthy (not
\* undefined and not the empty string); when there is none, the value of the
\* last alias is used, so a text field is "", the date null, and a number
\* field null if that last alias is undefined and 0 if it is ""
C4_FirstTruthyAlias ==
  Ingested =>
    \A i \in 1..Len(arg) : \A f \in DOMAIN Aliases :
      res[i][f] = FieldOf(FirstTruthy(AliasValues(arg[i], f)), f)

C4_Witness ==
  /\ Ingested
  /\ \E i \in 1..Len(arg) :
       /\ arg[i].Name = <<>> /\ arg[i].name = Cal /\ res[i].Name = Cal
       /\ arg[i].DeadliftKg = <<>> /\ Truthy(arg[i].best3dlkg)
       /\ res[i].DeadliftKg = Num(1055, 1)

Lifts == {"Squat", "Bench", "Deadlift", "Total"}

Abs(n) == IF n < 0 THEN -n ELSE n

\* lb is kg * 2.20462 rounded to 2 decimals: lb has at most 2 decimals and
\* differs from the product by at most 0.005
IsRoundedLb(kg, lb) ==
  /\ lb[3] <= 2
  /\ 2 * Abs(lb[2] * Pow10(kg[3] + 5 - lb[3]) - kg[2] * 220462)
       <= Pow10(kg[3] + 3)

\* C5: for each lift Kg is null iff Lb is null, and a non-null Lb is the Kg
\* value times 2.20462 rounded to 2 decimal places
C5_UnitPair ==
  Ingested =>
    \A i \in 1..Len(res) : \A l \in Lifts :
      LET kg == res[i][l \o "Kg"]
          lb == res[i][l \o "Lb"]
      IN /\ (kg = null) <=> (lb = null)
         /\ kg # null => IsRoundedLb(kg, lb)

C5_Witness ==
  /\ Ingested
  /\ \E i \in 1..Len(res) :
       res[i].SquatKg = Num(1055, 1) /\ res[i].SquatLb = Num(23259, 2)
  /\ \E i \in 1..Len(res) :
       res[i].DeadliftKg = null /\ res[i].DeadliftLb = null

----------------------------------------------------------------------------
\* Properties of the query layer and of the view (Spec)

Range(q) == {q[i] : i \in 1..Len(q)}
Count(q, v) == Cardinality({i \in 1..Len(q) : q[i] = v})

ContainsRaw(e) ==
  \E i \in 1..(Len(e) - 2) :
    e[i] \in {"r", "R"} /\ e[i + 1] \in {"a", "A"} /\ e[i + 2] \in {"w", "W"}

FilteredNow == Filtered(rows, selected, equipment)
TracesNow == Traces(FilteredNow, lifts, unit)
ActiveCount == Cardinality({k \in Lifts : lifts[k]})

\* C6 as claimed: with a name selected, no record passing the filters gives
\* zero series
C6_NoMatchNoSeries ==
  (Truthy(selected) /\ FilteredNow = <<>>) => TracesNow = <<>>

\* C6 amended: there is one series per active lift, whatever the records,
\* each with one x and one y per record that passes the filters; so the
\* series list is empty exactly when no lift is active, and when no record
\* passes the filters each active lift has a series with empty x and y
C6_SeriesPerActiveLift ==
  /\ Len(TracesNow) = ActiveCount
  /\ \A a \in 1..Len(TracesNow) :
       /\ lifts[TracesNow[a].name]
       /\ Len(TracesNow[a].x) = Len(FilteredNow)
       /\ Len(TracesNow[a].y) = Len(FilteredNow)
  /\ (ActiveCount = 0) <=> (TracesNow = <<>>)

C6_Witness ==
  /\ rows # <<>>
  /\ Truthy(selected)
  /\ equipment = "Raw"
  /\ FilteredNow = <<>>
  /\ Len(TracesNow) = 2
  /\ TracesNow[1].x = <<>>

\* C7: for the selected name, the result under "Raw" holds only records
\* whose Equipment contains "raw" case-insensitively, the result under
\* "Equipped" holds none of them, and the two are disjoint and together are
\* the result under "All", which holds exactly the records with that name
C7_EquipmentPartition ==
  LET A == Filtered(rows, selected, "All")
      R == Filtered(rows, selected, "Raw")
      E == Filtered(rows, selected, "Equipped")
  IN /\ \A i \in 1..Len(R) : ContainsRaw(R[i].Equipment)
     /\ \A i \in 1..Len(E) : ~ContainsRaw(E[i].Equipment)
     /\ Range(R) \cap Range(E) = {}
     /\ \A v \in Range(A) \cup Range(R) \cup Range(E) :
          Count(R, v) + Count(E, v) = Count(A, v)
     /\ Truthy(selected) =>
          \A v \in Range(rows) \cup Range(A) :
            Count(A, v) = IF v.Name = selected THEN Count(rows, v) ELSE 0

C7_Witness ==
  LET R == Filtered(rows, selected, "Raw")
      E == Filtered(rows, selected, "Equipped")
  IN /\ Truthy(selected)
     /\ \E i \in 1..Len(E) : E[i].Equipment = <<>>
     /\ \E i \in 1..Len(R) : R[i].Equipment = <<"R", "A", "W">>

\* a record passes the name and equipment filters
Passes(r) ==
  /\ Truthy(selected)
  /\ r.Name = selected
  /\ \/ equipment = "All"
     \/ equipment = "Raw" /\ ContainsRaw(r.Equipment)
     \/ equipment = "Equipped" /\ ~ContainsRaw(r.Equipment)

IsPermutationOfPassing ==
  \A v \in Range(rows) \cup Range(FilteredNow) :
    Count(FilteredNow, v) = IF Passes(v) THEN Count(rows, v) ELSE 0

\* calendar order of two ISO dates
DateLeq(a, b) ==
  \/ a[2] < b[2]
  \/ a[2] = b[2] /\ a[3] < b[3]
  \/ a[2] = b[2] /\ a[3] = b[3] /\ a[4] <= b[4]

\* C8 as claimed: the result is a permutation of the passing records, dated
\* records ascending, and every null-dated record before every dated one
C8_NullDatesFirst ==
  /\ IsPermutationOfPassing
  /\ \A i, j \in 1..Len(FilteredNow) :
       LET a == FilteredNow[i].MeetDate
           b == FilteredNow[j].MeetDate
       IN /\ (i < j /\ a # null /\ b # null) => DateLeq(a, b)
          /\ (a = null /\ b # null) => i < j

Epoch == <<"date", 1970, 1, 1>>
DateOrEpoch(r) == IF r.MeetDate = null THEN Epoch ELSE r.MeetDate

\* C8 amended: the result is a permutation of the passing records in
\* ascending date order where a null date counts as 1970-01-01 (so it comes
\* after earlier dates and before later ones), and records that compare
\* equal keep the order they have in the record sequence
C8_NullDatesAtEpoch ==
  /\ IsPermutationOfPassing
  /\ \A i, j \in 1..Len(FilteredNow) :
       i < j => DateLeq(DateOrEpoch(FilteredNow[i]), DateOrEpoch(FilteredNow[j]))
  /\ \A r \in Range(FilteredNow) :
       LET same(s) == DateOrEpoch(s) = DateOrEpoch(r)
           pass(s) == Passes(s)
       IN SelectSeq(FilteredNow, same) = SelectSeq(SelectSeq(rows, pass), same)

C8_Witness ==
  /\ Len(rows) = 2
  /\ rows[1].MeetDate = null
  /\ Len(FilteredNow) = 2
  /\ FilteredNow[1] = rows[2]
  /\ FilteredNow[1].MeetDate = <<"date", 1969, 12, 31>>
  /\ FilteredNow[2].MeetDate = null

\* the series under a unit, all else as in the current state
TracesIn(u) == Traces(FilteredNow, lifts, u)

\* C9: a change of unit leaves rows, selection, equipment filter and lifts
\* alone, and the series under kg and under lb have the same number, the
\* same names, the same x sequences and the same point counts; every series
\* has as many y values as x values, taken from the fields of its unit
C9_UnitToggleKeepsShape ==
  /\ [][unit' # unit => UNCHANGED <<rows, selected, equipment, lifts>>]_vars
  /\ [](/\ Len(TracesIn("lb")) = Len(TracesIn("kg"))
        /\ \A a \in 1..Len(TracesIn("kg")) :
             LET k == TracesIn("kg")[a]
                 l == TracesIn("lb")[a]
             IN /\ l.name = k.name
                /\ l.x = k.x
                /\ Len(l.y) = Len(l.x)
                /\ Len(k.y) = Len(k.x)
                /\ \A i \in 1..Len(FilteredNow) :
                     /\ k.y[i] = FilteredNow[i][k.name \o "Kg"]
                     /\ l.y[i] = FilteredNow[i][k.name \o "Lb"])

C9_Witness ==
  /\ unit = "lb"
  /\ Len(TracesNow) = 3
  /\ Len(TracesNow[1].x) = 2
  /\ TracesNow[1].y[1] = null
  /\ TracesNow[1].y[2] = Num(22046, 2)

\* C10: the selected name is "" or the name of a current record; matches is
\* empty when the query is empty and holds only names of the current name
\* list, itself the names of the current records
C10_SelectionAndMatchesCurrent ==
  /\ selected = <<>> \/ \E i \in 1..Len(rows) : rows[i].Name = selected
  /\ query = <<>> => matches = <<>>
  /\ Range(matches) \subseteq Range(names)
  /\ Range(names) = {rows[i].Name : i \in 1..Len(rows)} \ {<<>>}

C10_Witness ==
  /\ pending = 0
  /\ query # <<>>
  /\ Len(matches) = 2
  /\ selected = matches[2]
====
